---- MODULE Spec2Model ----
(***************************************************************************)
(* Model of the record-array reducers of dataCompression/:                 *)
(*   data-reducer.py        item-count budget ("items" variant)            *)
(*   data-reduce-token.py   estimated-token budget ("tokens" variant)      *)
(*   json-data-reducer.py   reduction ratio only ("ratio" variant)         *)
(* Text is a sequence of one-character strings, a JSON value is a tagged   *)
(* record, array indices are 0-based as in the source.  Floating point     *)
(* quotients are modelled by exact integer arithmetic; within the bounds   *)
(* of this model the truncations int(...) of the source agree with it.     *)
(***************************************************************************)
EXTENDS Integers, Sequences, FiniteSets, TLC

\* ------------------------------------------------------------------ text
Lower == {"a", "b", "c", "d", "e", "f", "g", "h", "i", "j", "k", "l", "m",
          "n", "o", "p", "q", "r", "s", "t", "u", "v", "w", "x", "y", "z"}
Upper == {"A", "B", "C", "D", "E", "F", "G", "H", "I", "J", "K", "L", "M",
          "N", "O", "P", "Q", "R", "S", "T", "U", "V", "W", "X", "Y", "Z"}
Digit == {"0", "1", "2", "3", "4", "5", "6", "7", "8", "9"}

IsSpace(c) == c = " "
IsWord(c) == c \in Lower \cup Upper \cup Digit \cup {"_"}
IsPunct(c) == ~IsSpace(c) /\ ~IsWord(c)

Max(a, b) == IF a >= b THEN a ELSE b
Min(a, b) == IF a <= b THEN a ELSE b
Abs(a) == IF a >= 0 THEN a ELSE -a

\* ------------------------------------------------------------ JSON values
JInt(n) == [t |-> "int", n |-> n]
JStr(s) == [t |-> "str", s |-> s]
JDict(items) == [t |-> "dict", items |-> items]
JList(elems) == [t |-> "list", elems |-> elems]
JBool(b) == [t |-> "bool", b |-> b]
JNull == [t |-> "null"]
KV(k, v) == [k |-> k, v |-> v]

RECURSIVE DigitsOf(_)
DigitsOf(n) ==
    LET d == <<"0", "1", "2", "3", "4", "5", "6", "7", "8", "9">>[(n % 10) + 1]
    IN IF n < 10 THEN <<d>> ELSE DigitsOf(n \div 10) \o <<d>>

RECURSIVE Dumps(_)
RECURSIVE DumpsItems(_, _)
RECURSIVE DumpsElems(_, _)
\* json.dumps(data, separators=(',', ':')); the text of the model needs no
\* escape (no quote, backslash or non-ASCII character occurs in it)
Dumps(x) ==
    CASE x.t = "int" -> IF x.n < 0 THEN <<"-">> \o DigitsOf(-x.n) ELSE DigitsOf(x.n)
      [] x.t = "str" -> <<"\"">> \o x.s \o <<"\"">>
      [] x.t = "dict" -> <<"{">> \o DumpsItems(x.items, 1) \o <<"}">>
      [] x.t = "list" -> <<"[">> \o DumpsElems(x.elems, 1) \o <<"]">>
      [] x.t = "bool" -> IF x.b THEN <<"t", "r", "u", "e">> ELSE <<"f", "a", "l", "s", "e">>
      [] x.t = "null" -> <<"n", "u", "l", "l">>
DumpsItems(items, i) ==
    IF i > Len(items) THEN <<>>
    ELSE (IF i > 1 THEN <<",">> ELSE <<>>)
         \o <<"\"">> \o items[i].k \o <<"\"">> \o <<":">> \o Dumps(items[i].v)
         \o DumpsItems(items, i + 1)
DumpsElems(elems, i) ==
    IF i > Len(elems) THEN <<>>
    ELSE (IF i > 1 THEN <<",">> ELSE <<>>) \o Dumps(elems[i]) \o DumpsElems(elems, i + 1)

\* ------------------------------------------------------------ cost model
_estimate_word_tokens(word) ==
    LET length == Len(word)
        camel == \E i \in 2..length : word[i] \in Upper
        alphaLower == /\ \A i \in 1..length : word[i] \in Lower \cup Upper
                      /\ \A i \in 1..length : word[i] \notin Upper
        RECURSIVE Segments(_)
        Segments(i) == IF i > length THEN 1
                       ELSE (IF word[i] = "_" THEN 1 ELSE 0) + Segments(i + 1)
    IN IF length = 0 THEN 0
       ELSE IF length <= 5 THEN 1
       ELSE IF length <= 7 THEN (IF camel THEN Max(1, length \div 4) ELSE 1)
       ELSE IF length <= 10
            THEN (IF alphaLower THEN (IF length <= 8 THEN 1 ELSE 2)
                  ELSE Max(1, length \div 4))
       ELSE IF \E i \in 1..length : word[i] = "_" THEN Segments(1)
       ELSE IF camel THEN Max(2, length \div 5)
       ELSE Max(2, length \div 4)

RECURSIVE PartTokens(_, _, _)
\* cost of the parts of re.split(r'(\s+|[^\w\s])', text) in text[i..hi]:
\* a whitespace run 1, a punctuation character 1, a word run by its length
PartTokens(text, i, hi) ==
    IF i > hi THEN 0
    ELSE LET RECURSIVE RunEnd(_, _)
             RunEnd(j, sp) ==
                 IF j < hi /\ (IF sp THEN IsSpace(text[j + 1]) ELSE IsWord(text[j + 1]))
                 THEN RunEnd(j + 1, sp) ELSE j
         IN IF IsPunct(text[i]) THEN 1 + PartTokens(text, i + 1, hi)
            ELSE IF IsSpace(text[i])
                 THEN 1 + PartTokens(text, RunEnd(i, TRUE) + 1, hi)
            ELSE LET e == RunEnd(i, FALSE)
                 IN _estimate_word_tokens(SubSeq(text, i, e)) + PartTokens(text, e + 1, hi)

_tokenize_text(text) ==
    IF Len(text) = 0 THEN 0
    ELSE LET lead == IF text[1] = " " THEN 1 ELSE 0
             trail == IF text[Len(text)] = " " THEN 1 ELSE 0
             RECURSIVE First(_)
             First(i) == IF i <= Len(text) /\ IsSpace(text[i]) THEN First(i + 1) ELSE i
             RECURSIVE Last(_)
             Last(i) == IF i >= 1 /\ IsSpace(text[i]) THEN Last(i - 1) ELSE i
         IN Max(1, lead + trail + PartTokens(text, First(1), Last(Len(text))))

_tokenize_number_openai_style(number_str) ==
    LET len == Len(number_str)
    IN IF len = 0 THEN 0
       ELSE IF len <= 3 /\ \A i \in 1..len : number_str[i] \in Digit THEN 1
       ELSE IF len <= 4 THEN 1
       ELSE Max(1, len \div 3)
RECURSIVE SumRange(_, _, _)
\* sum of f[lo..hi], halving the range
SumRange(f, lo, hi) ==
    IF lo > hi THEN 0
    ELSE IF lo = hi THEN f[lo]
    ELSE LET mid == (lo + hi) \div 2
         IN SumRange(f, lo, mid) + SumRange(f, mid + 1, hi)

structural_chars == {"{", "}", "[", "]", ",", ":", "\""}

\* The matches of string_pattern r'"([^"\\]|\\.)*"' in json_str, found left to
\* right: the quotes pair up in order (the text of the model has no backslash),
\* so the odd-numbered quotes open a match and the even-numbered ones close it.
QuoteRank(js) ==
    LET quotes == {i \in 1..Len(js) : js[i] = "\""}
    IN [i \in 1..Len(js) |-> Cardinality({j \in quotes : j <= i})]

\* match.group(1) of the match closed at position close: the last repetition
\* of the group, i.e. the last character of the string, None when it is empty
StringGroup1(js, close) == IF js[close - 1] = "\"" THEN <<>> ELSE <<js[close - 1]>>

\* for num in re.findall(r'-?\d+\.?\d*(?:[eE][+-]?\d+)?', no_strings):
\* _tokenize_number_openai_style(num), summed; no_strings is json_str without
\* the string matches, in which an integer-valued tree has no '.', 'e' or 'E'
NumberTokens(no_strings) ==
    LET len == Len(no_strings)
        IsDigit(i) == i >= 1 /\ i <= len /\ no_strings[i] \in Digit
        RECURSIVE DigitEnd(_)
        DigitEnd(j) == IF IsDigit(j + 1) THEN DigitEnd(j + 1) ELSE j
        cost == [i \in 1..len |->
                   IF no_strings[i] = "-" /\ IsDigit(i + 1)
                   THEN _tokenize_number_openai_style(SubSeq(no_strings, i, DigitEnd(i)))
                   ELSE IF IsDigit(i) /\ ~IsDigit(i - 1)
                           /\ ~(i > 1 /\ no_strings[i - 1] = "-")
                   THEN _tokenize_number_openai_style(SubSeq(no_strings, i, DigitEnd(i)))
                   ELSE 0]
    IN SumRange(cost, 1, len)

estimate_tokens(data) ==
    LET json_str == Dumps(data)
        len == Len(json_str)
        structural == Cardinality({i \in 1..len : json_str[i] \in structural_chars})
        rank == QuoteRank(json_str)
        closes(i) == json_str[i] = "\"" /\ rank[i] % 2 = 0
        text_cost == [i \in 1..len |->
                        IF closes(i) THEN _tokenize_text(StringGroup1(json_str, i)) ELSE 0]
        outside(c) == c # "\""
        masked == [i \in 1..len |-> IF rank[i] % 2 = 1 THEN "\"" ELSE json_str[i]]
        no_strings == SelectSeq(masked, outside)
    IN IF data.t = "null" THEN 0
       ELSE structural + SumRange(text_cost, 1, len) + NumberTokens(no_strings)

\* int(avg_tokens_per_item * len(data_array) + array_overhead) with
\* avg_tokens_per_item = sample_tokens / len(sample_data)
ExtrapolatedTokens(sample_tokens, sample_len, n) ==
    (sample_tokens * n) \div sample_len + (2 + (n - 1))

\* the 0-based indices sampled for an array of more than 10 records
sample_indices(n) ==
    IF n <= 20 THEN 0..(n - 1)
    ELSE (0..(Min(7, n) - 1)) \cup (Max(0, n - 7)..(n - 1))
         \cup (Max(0, n \div 2 - 3)..(Min(n, n \div 2 + 3) - 1))

RECURSIVE PickSorted(_, _, _)
\* [arr[i] for i in sorted(idx)] for a set idx of 0-based indices, from i on
PickSorted(arr, idx, i) ==
    IF i >= Len(arr) THEN <<>>
    ELSE (IF i \in idx THEN <<arr[i + 1]>> ELSE <<>>) \o PickSorted(arr, idx, i + 1)

estimate_tokens_for_array(data_array) ==
    LET n == Len(data_array)
    IN IF n = 0 THEN 0
       ELSE IF n <= 10 THEN estimate_tokens(JList(data_array))
       ELSE LET sample_data == PickSorted(data_array, sample_indices(n), 0)
            IN ExtrapolatedTokens(estimate_tokens(JList(sample_data)), Len(sample_data), n)
\* ------------------------------------------------------- records, columns
None == -1

KeyCycle == <<"C", "y", "c", "l", "e">>
KeyV == <<"v">>
KeyS == <<"s">>

\* value of column col in a record (df.iloc[i][col])
Field(rec, col) == LET j == CHOOSE j \in 1..Len(rec.items) : rec.items[j].k = col
                   IN rec.items[j].v

\* df.columns: the keys of the records, in the order of the first record
Columns(data) == [j \in 1..Len(data[1].items) |-> data[1].items[j].k]

\* df[col].dtype in ['int64', 'float64']
IsNumericCol(data, col) == \A i \in 1..Len(data) : Field(data[i], col).t = "int"

InSeq(x, seq) == \E j \in 1..Len(seq) : seq[j] = x

\* ["Charge/Discharge", "Status", "Mode"], the names the ratio variant takes
\* as categorical whatever their values
CommonCategorical ==
    {<<"C", "h", "a", "r", "g", "e", "/", "D", "i", "s", "c", "h", "a", "r", "g", "e">>,
     <<"S", "t", "a", "t", "u", "s">>, <<"M", "o", "d", "e">>}

\* "Identify data types": the columns the statistics run over.  The items
\* variant has no significant_cols option, the tokens variant tests it first,
\* the ratio variant tests the common categorical names first.
numerical_cols(variant, data, cfg) ==
    LET Keep(col) == /\ col # cfg.sequence_key
                     /\ ~(variant = "tokens" /\ InSeq(col, cfg.significant_cols))
                     /\ ~(variant = "ratio" /\ col \in CommonCategorical)
                     /\ IsNumericCol(data, col)
    IN SelectSeq(Columns(data), Keep)

\* the columns scanned for transitions: categorical_cols (items: the sequence
\* key is passed over; ratio: the sequence key is appended to them),
\* significant_cols (tokens)
transition_cols(variant, data, cfg) ==
    LET Keep(col) ==
            IF variant = "tokens"
            THEN col # cfg.sequence_key /\ InSeq(col, cfg.significant_cols)
            ELSE IF variant = "items"
            THEN col # cfg.sequence_key /\ ~IsNumericCol(data, col)
            ELSE \/ col = cfg.sequence_key
                 \/ col \in CommonCategorical
                 \/ ~IsNumericCol(data, col)
    IN SelectSeq(Columns(data), Keep)

\* df[col].values, 0-based
ColValues(data, col) == [i \in 0..(Len(data) - 1) |-> Field(data[i + 1], col).n]

RECURSIVE SumFn(_, _)
\* sum of f[0..k]
SumFn(f, k) == IF k < 0 THEN 0 ELSE f[k] + SumFn(f, k - 1)

\* n * n * (population variance) = n * sum(v^2) - sum(v)^2
ScaledVariance(values, n) ==
    n * SumFn([i \in 0..(n - 1) |-> values[i] * values[i]], n - 1)
    - SumFn(values, n - 1) * SumFn(values, n - 1)

\* ---------------------------------------------------------- salient set
\* Anomalies without the limit of 5 per column
AnomaliesUncapped(values, n) ==
    LET sum == SumFn(values, n - 1)
        q == ScaledVariance(values, n)
    IN {i \in 0..(n - 1) :
           q > 0 /\ 4 * (n * values[i] - sum) * (n * values[i] - sum) > 25 * q}

\* np.where(z_scores > 2.5)[0][:5] with z = |v - mean| / (std + 1e-8):
\* z > 2.5 iff 4 (n v - sum)^2 > 25 (n sum(v^2) - sum^2) when std > 0, and
\* z = 0 when std = 0
Anomalies(values, n) ==
    LET sum == SumFn(values, n - 1)
        q == ScaledVariance(values, n)
        hits == {i \in 0..(n - 1) :
                   q > 0 /\ 4 * (n * values[i] - sum) * (n * values[i] - sum) > 25 * q}
    IN {i \in hits : Cardinality({j \in hits : j < i}) < 5}

\* np.argmin / np.argmax: the first index of the least / greatest value
ArgMin(values, n) ==
    CHOOSE i \in 0..(n - 1) :
        /\ \A j \in 0..(n - 1) : values[i] <= values[j]
        /\ \A j \in 0..(i - 1) : values[j] > values[i]
ArgMax(values, n) ==
    CHOOSE i \in 0..(n - 1) :
        /\ \A j \in 0..(n - 1) : values[i] >= values[j]
        /\ \A j \in 0..(i - 1) : values[j] < values[i]

\* both ends of every adjacent pair whose value in col differs
Transitions(data, col) ==
    UNION {{i - 1, i} : i \in {k \in 1..(Len(data) - 1) :
                                  Field(data[k + 1], col) # Field(data[k], col)}}

\* preserved_indices after steps 1-3 of the core algorithm
SalientSet(variant, data, cfg) ==
    LET n == Len(data)
        num == numerical_cols(variant, data, cfg)
        tr == transition_cols(variant, data, cfg)
    IN {0, n - 1}
       \cup (IF cfg.preserve_anomalies
             THEN UNION {Anomalies(ColValues(data, num[c]), n) : c \in 1..Len(num)}
             ELSE {})
       \cup (IF cfg.preserve_extremes
             THEN UNION {{ArgMin(ColValues(data, num[c]), n), ArgMax(ColValues(data, num[c]), n)}
                         : c \in 1..Len(num)}
             ELSE {})
       \cup UNION {Transitions(data, tr[c]) : c \in 1..Len(tr)}
\* ----------------------------------------------------- significance score
\* significance_scores[idx] for the one numeric column the arrays of this
\* model have (none: every score is 0.0), kept exact as the pair (a, b) with
\*   score = a / 9 + b * sqrt((n - 1) / (n * q)),   q = n sum(v^2) - sum(v)^2
\* a / 9 = np.var of the 3-value window (0 at the two ends), and the second
\* term is |v - mean| / df[col].std(), added only when the sample std is > 0
ScoreTerms(data, num, idx) ==
    LET n == Len(data)
        values == ColValues(data, num[1])
        x == values[idx - 1] + values[idx] + values[idx + 1]
        xx == values[idx - 1] * values[idx - 1] + values[idx] * values[idx]
              + values[idx + 1] * values[idx + 1]
    IN IF Len(num) = 0 THEN [a |-> 0, b |-> 0]
       ELSE [a |-> IF 0 < idx /\ idx < n - 1 THEN 3 * xx - x * x ELSE 0,
             b |-> IF n > 1 /\ ScaledVariance(values, n) > 0
                   THEN Abs(n * values[idx] - SumFn(values, n - 1)) ELSE 0]

\* significance_scores[i] > significance_scores[j]
ScoreGreater(data, num, i, j) ==
    LET n == Len(data)
        q == IF Len(num) = 0 THEN 0 ELSE ScaledVariance(ColValues(data, num[1]), n)
        x == ScoreTerms(data, num, i).a - ScoreTerms(data, num, j).a
        y == ScoreTerms(data, num, i).b - ScoreTerms(data, num, j).b
    IN IF x >= 0 /\ y >= 0 THEN x > 0 \/ y > 0
       ELSE IF x <= 0 /\ y <= 0 THEN FALSE
       ELSE IF x > 0 THEN x * x * n * q > 81 * y * y * (n - 1)
       ELSE 81 * y * y * (n - 1) > x * x * n * q

\* sorted(list(s)) for a set s of indices
SortedList(s) ==
    [k \in 1..Cardinality(s) |-> CHOOSE i \in s : Cardinality({j \in s : j < i}) = k - 1]

RECURSIVE Probe(_, _, _)
\* the slot an integer takes in a set's table of 8 slots, from slot i on: a
\* taken slot sends it to (i * 5 + 1 + perturb) & 7 with perturb >>= 5
Probe(i, perturb, taken) ==
    IF i \notin taken THEN i
    ELSE Probe((i * 5 + 1 + perturb \div 32) % 8, perturb \div 32, taken)

RECURSIVE SlotsOf(_, _)
\* the slots of the first k integers of asc, added in this order to an empty
\* set (hash(v) = v, first slot v & 7)
SlotsOf(asc, k) ==
    IF k = 0 THEN <<>>
    ELSE LET before == SlotsOf(asc, k - 1)
         IN Append(before, Probe(asc[k] % 8, asc[k], {before[j] : j \in 1..(k - 1)}))

\* The order in which "set(range(n)) - preserved_indices" is iterated, for
\* n <= 32.  When len(range set) >> 2 exceeds len(preserved_indices) the
\* difference is a copy of set(range(n)) with elements discarded: ascending.
\* Otherwise the remaining integers are added in ascending order to an empty
\* set, whose 8 slots are iterated in slot order; with the fifth element the
\* table grows to 32 slots, where every integer below 32 has its own slot:
\* ascending again.
remaining_indices(n, remaining) ==
    LET asc == SortedList(remaining)
        len == Len(asc)
        slots == SlotsOf(asc, len)
    IN IF n \div 4 > n - len \/ len >= 5 THEN asc
       ELSE [k \in 1..len |->
               asc[CHOOSE j \in 1..len :
                       Cardinality({m \in 1..len : slots[m] < slots[j]}) = k - 1]]

\* sorted(remaining_indices, key=score, reverse=True): descending score; the
\* sort is stable, so equal scores stay in the order the set is iterated in
sorted_remaining(data, num, remaining) ==
    LET order == remaining_indices(Len(data), remaining)
        pos(i) == CHOOSE k \in 1..Len(order) : order[k] = i
        Before(j, i) == \/ ScoreGreater(data, num, j, i)
                        \/ (~ScoreGreater(data, num, i, j) /\ pos(j) < pos(i))
    IN [k \in 1..Cardinality(remaining) |->
          CHOOSE i \in remaining : Cardinality({j \in remaining : Before(j, i)}) = k - 1]

\* ------------------------------------------------- items: fill and trim
\* ItemsTarget with the min_points floor forgotten
ItemsTargetWithoutFloor(n, cfg) ==
    IF cfg.target_size # None
    THEN Min(cfg.target_size, n)
    ELSE (n * (100 - cfg.reduction_pct)) \div 100

\* target_size of the items variant; int(n * (1 - reduction_ratio)) with the
\* ratio held in percent
ItemsTarget(n, cfg) ==
    IF cfg.target_size # None
    THEN Max(cfg.min_points, Min(cfg.target_size, n))
    ELSE Max(cfg.min_points, (n * (100 - cfg.reduction_pct)) \div 100)

\* target_size of the ratio variant, which has no target_size option
RatioTarget(n, cfg) == Max(cfg.min_points, (n * (100 - cfg.reduction_pct)) \div 100)

TargetSize(variant, n, cfg) ==
    IF variant = "ratio" THEN RatioTarget(n, cfg) ELSE ItemsTarget(n, cfg)

\* step 4: preserved_indices.update(sorted_remaining[:additional_needed])
Fill(data, num, preserved, target_size) ==
    LET order == sorted_remaining(data, num, (0..(Len(data) - 1)) \ preserved)
        additional_needed == target_size - Cardinality(preserved)
    IN preserved \cup {order[k] : k \in 1..Min(additional_needed, Len(order))}

\* Trim cutting the sorted indices after target_size of them, the two ends
\* treated like the others
TrimByPosition(n, preserved, target_size) ==
    LET preserved_list == SortedList(preserved)
    IN {preserved_list[k] : k \in 1..Min(target_size, Len(preserved_list))}

\* trim: must_keep.union(set(can_remove[:-to_remove]))
Trim(n, preserved, target_size) ==
    LET must_keep == {0, n - 1}
        can_remove == SortedList(preserved \ must_keep)
        to_remove == Cardinality(preserved) - target_size
    IN must_keep \cup {can_remove[k] : k \in 1..(Len(can_remove) - to_remove)}

\* ------------------------------------------- tokens: growth and shrink
TokensOf(data, indices) == estimate_tokens_for_array(PickSorted(data, indices, 0))

\* GrowStepOf with the test against target_tokens forgotten
GrowStepOfAccepting(data, target_tokens, st) ==
    LET idx == Head(st.queue)
        test_tokens == TokensOf(data, st.preserved \cup {idx})
    IN [preserved |-> st.preserved \cup {idx}, queue |-> Tail(st.queue),
        current_tokens |-> test_tokens, running |-> Tail(st.queue) # <<>>]

\* one pass of "for idx in sorted_remaining": the candidate is kept when the
\* selection with it costs at most target_tokens, otherwise the loop breaks
GrowStepOf(data, target_tokens, st) ==
    LET idx == Head(st.queue)
        test_tokens == TokensOf(data, st.preserved \cup {idx})
    IN IF test_tokens <= target_tokens
       THEN [preserved |-> st.preserved \cup {idx}, queue |-> Tail(st.queue),
             current_tokens |-> test_tokens, running |-> Tail(st.queue) # <<>>]
       ELSE [st EXCEPT !.running = FALSE]

\* can_remove[-5:]
ShrinkWindow == 5
LastCandidates(can_remove) ==
    SubSeq(can_remove, Max(1, Len(can_remove) - ShrinkWindow + 1), Len(can_remove))

\* ShrinkStepOf with can_remove.remove(best_removal) forgotten
ShrinkStepOfKeeping(data, target_tokens, st) ==
    LET window == LastCandidates(st.queue)
        test_tokens == [k \in 1..Len(window) |-> TokensOf(data, st.preserved \ {window[k]})]
        best == CHOOSE k \in 1..Len(window) :
                    /\ \A j \in 1..Len(window) : test_tokens[k] <= test_tokens[j]
                    /\ \A j \in 1..(k - 1) : test_tokens[j] > test_tokens[k]
    IN [preserved |-> st.preserved \ {window[best]}, queue |-> st.queue,
        current_tokens |-> test_tokens[best],
        running |-> test_tokens[best] > target_tokens /\ st.queue # <<>>]

\* one pass of the while loop of the shrink: among the last candidates, the
\* first one whose removal gives the least cost is removed
ShrinkStepOf(data, target_tokens, st) ==
    LET window == LastCandidates(st.queue)
        test_tokens == [k \in 1..Len(window) |-> TokensOf(data, st.preserved \ {window[k]})]
        best == CHOOSE k \in 1..Len(window) :
                    /\ \A j \in 1..Len(window) : test_tokens[k] <= test_tokens[j]
                    /\ \A j \in 1..(k - 1) : test_tokens[j] > test_tokens[k]
        NotBest(i) == i # window[best]
        can_remove == SelectSeq(st.queue, NotBest)
    IN [preserved |-> st.preserved \ {window[best]}, queue |-> can_remove,
        current_tokens |-> test_tokens[best],
        running |-> test_tokens[best] > target_tokens /\ can_remove # <<>>]
\* ------------------------------------------------------------ the walker
RootPath == <<"r", "o", "o", "t">>

\* f"{path}.{key}" if path != "root" else key
ChildPath(path, key) == IF path # RootPath THEN path \o <<".">> \o key ELSE key

\* path.split('.'): the maximal runs without a dot, empty ones included
PathParts(path) ==
    LET len == Len(path)
        starts == {i \in 1..(len + 1) : i = 1 \/ path[i - 1] = "."}
        End(i) == CHOOSE j \in (i - 1)..len :
                      /\ \A k \in i..j : path[k] # "."
                      /\ (j = len \/ path[j + 1] = ".")
    IN {SubSeq(path, i, End(i)) : i \in starts}

\* re.search(pattern, path) for the patterns of the model: a literal text with
\* an optional '^' in front and an optional '$' behind
PatternFound(pattern, path) ==
    \E i \in 1..(Len(path) + 1) :
        /\ i + Len(pattern.text) - 1 <= Len(path)
        /\ SubSeq(path, i, i + Len(pattern.text) - 1) = pattern.text
        /\ pattern.head => i = 1
        /\ pattern.tail => i + Len(pattern.text) - 1 = Len(path)

_should_skip_field(path, c) ==
    \/ InSeq(path, c.skip_fields)
    \/ \E j \in 1..Len(c.skip_fields) : c.skip_fields[j] \in PathParts(path)
    \/ \E j \in 1..Len(c.skip_patterns) : PatternFound(c.skip_patterns[j], path)

RECURSIVE ListNodes(_, _, _)
RECURSIVE ListNodesOfItems(_, _, _, _)
\* the lists of the tree in the order both passes reach them (dictionaries are
\* entered key by key, lists are not entered), each with its dotted path and
\* with its place: the key numbers leading to it
ListNodes(obj, path, place) ==
    IF obj.t = "dict" THEN ListNodesOfItems(obj.items, path, place, 1)
    ELSE IF obj.t = "list" THEN <<[path |-> path, place |-> place, obj |-> obj]>>
    ELSE <<>>
ListNodesOfItems(items, path, place, j) ==
    IF j > Len(items) THEN <<>>
    ELSE ListNodes(items[j].v, ChildPath(path, items[j].k), Append(place, j))
         \o ListNodesOfItems(items, path, place, j + 1)

\* all(isinstance(item, dict) for item in obj)
AllRecords(obj) == \A i \in 1..Len(obj.elems) : obj.elems[i].t = "dict"

\* what _collect_arrays appends to array_info for one list, <<>> when nothing
CollectedInfo(variant, node, c) ==
    LET size == Len(node.obj.elems)
        tokens == estimate_tokens_for_array(node.obj.elems)
        Info(tk, skip, reason) ==
            <<[path |-> node.path, size |-> size, tokens |-> tk, data |-> node.obj.elems,
               skip |-> skip, reason |-> reason, individual_target |-> None]>>
    IN IF variant = "items"
       THEN IF size >= c.min_array_size /\ AllRecords(node.obj)
            THEN Info(0, FALSE, "") ELSE <<>>
       ELSE IF size > 0 /\ AllRecords(node.obj)
            THEN IF _should_skip_field(node.path, c)
                 THEN Info(tokens, TRUE, "Matched skip configuration")
                 ELSE IF tokens >= c.min_array_tokens THEN Info(tokens, FALSE, "")
                 ELSE Info(tokens, TRUE, "Below minimum token threshold")
            ELSE <<>>

\* int(total_target * proportion), proportion = share / total: the exact
\* floor.  The double-precision product can truncate to one below it
\* (int(55 * (3 / 11)) = 14); it does so for none of the budgets and shares
\* of the trees below.
ProportionalTarget(total_target, share, total) == (total_target * share) \div total

\* individual_target / individual_target_tokens of one compressible array
IndividualTarget(variant, info, c, total_items, total_compressible_tokens) ==
    IF variant = "items"
    THEN IF c.target_size # None
         THEN Max(c.min_points, ProportionalTarget(c.target_size, info.size, total_items))
         ELSE None
    ELSE IF c.target_tokens # None
         THEN ProportionalTarget(c.target_tokens, info.tokens, total_compressible_tokens)
         ELSE None

\* next((info for info in array_info if info["path"] == path), None), as the
\* position in array_info, 0 for None
MatchingInfo(infos, path) ==
    IF \E j \in 1..Len(infos) : infos[j].path = path
    THEN CHOOSE j \in 1..Len(infos) :
             /\ infos[j].path = path
             /\ \A i \in 1..(j - 1) : infos[i].path # path
    ELSE 0

RECURSIVE Rebuilt(_, _, _)
\* the value _compress_recursively returns for obj, given what it returned
\* for each list (outs[place])
Rebuilt(obj, place, outs) ==
    IF obj.t = "dict"
    THEN JDict([j \in 1..Len(obj.items) |->
                  KV(obj.items[j].k, Rebuilt(obj.items[j].v, Append(place, j), outs))])
    ELSE IF obj.t = "list" THEN outs[place]
    ELSE obj

\* ------------------------------------------------------------ the inputs
MaxLen == 3

Rec(c, v, s) == JDict(<<KV(KeyCycle, JInt(c)), KV(KeyV, JInt(v)), KV(KeyS, JStr(s))>>)

\* the (v, s) pairs a record is drawn from
RecKinds == {<<0, <<"a">>>>, <<0, <<"b", ",", "c">>>>, <<2, <<"a">>>>}

\* every array of at most MaxLen records, the sequence key counting from 0
SmallArrays ==
    UNION {{[i \in 1..n |-> Rec(i - 1, f[i][1], f[i][2])] : f \in [1..n -> RecKinds]}
           : n \in 0..MaxLen}

\* longer arrays: one that alternates its text (every record a transition),
\* one with a late peak, and one long enough to be costed by sampling, whose
\* record 13 is outside the sample and costly
Alternating == [i \in 1..8 |-> Rec(i - 1, IF i = 4 THEN 3 ELSE 1,
                                   IF i % 2 = 0 THEN <<"a">> ELSE <<"b", ",", "c">>)]
Peak == [i \in 1..5 |-> Rec(i - 1, IF i = 4 THEN 3 ELSE IF i = 2 THEN 1 ELSE 0, <<"a">>)]
\* Alternating with the costly text at the odd indices: index 3 is both the
\* peak of v and a costly record
CostlyPeak == [i \in 1..8 |-> Rec(i - 1, IF i = 4 THEN 3 ELSE 1,
                                  IF i % 2 = 0 THEN <<"b", ",", "c">> ELSE <<"a">>)]
\* text in plateaus a a a b b c c d d d and a constant number: records 1 and 8
\* are the only ones outside the salient set, with equal scores
Plateaus == [i \in 1..10 |-> Rec(i - 1, 0, <<<<"a">>, <<"a">>, <<"a">>, <<"b">>, <<"b">>, <<"c">>,
                                              <<"c">>, <<"d">>, <<"d">>, <<"d">>>>[i])]
\* 44 records with six outliers of v (|z| = 2.52), at indices 5, 10, ..., 30
Outliers == [i \in 1..44 |-> Rec(i - 1, IF (i - 1) \in {5, 10, 15, 20, 25, 30} THEN 1 ELSE 0,
                                 <<"a">>)]
Sampled == [i \in 1..21 |-> Rec(i - 1, IF i = 14 THEN 3 ELSE (i * i) % 3,
                                IF i = 14 THEN [k \in 1..30 |-> ","] ELSE <<"a">>)]
\* ----------------------------------------------------------- the configs
ItemTargets == {None} \cup (0..(MaxLen + 1))
TokenTargets == {None, 0, 46, 68, 1000}

BaseConfig ==
    [target_size |-> None, target_tokens |-> None, reduction_pct |-> 30,
     preserve_anomalies |-> TRUE, preserve_extremes |-> TRUE, min_points |-> 3,
     min_array_size |-> 10, min_array_tokens |-> 200, sequence_key |-> KeyCycle,
     significant_cols |-> <<>>, skip_fields |-> <<>>, skip_patterns |-> <<>>]

ItemConfigs ==
    {[BaseConfig EXCEPT !.target_size = t, !.min_points = m, !.preserve_extremes = e]
     : t \in ItemTargets, m \in {0, 3}, e \in BOOLEAN}

TokenConfigs ==
    {[BaseConfig EXCEPT !.target_tokens = t, !.min_array_tokens = m,
                        !.significant_cols = sc, !.preserve_extremes = e]
     : t \in TokenTargets, m \in {0, 68}, sc \in {<<>>, <<KeyS>>}, e \in BOOLEAN}

\* the calls on one array: every small array under every configuration, the
\* longer arrays under the configurations that make them grow and shrink
Call(v, a, c) == [variant |-> v, input |-> JList(a), config |-> c]

RatioConfigs ==
    {[BaseConfig EXCEPT !.min_points = m, !.sequence_key = k, !.preserve_extremes = e]
     : m \in {0, 3}, k \in {KeyCycle, KeyV}, e \in BOOLEAN}

SmallCalls ==
    {Call("items", a, c) : a \in SmallArrays, c \in ItemConfigs}
    \cup {Call("ratio", a, c) : a \in SmallArrays, c \in RatioConfigs}
    \cup {Call("tokens", a, c) : a \in SmallArrays, c \in TokenConfigs}

LongCalls ==
    {Call("items", a, [BaseConfig EXCEPT !.target_size = t, !.min_points = m])
     : a \in {Alternating, Peak}, t \in {None, 1, 3, 5}, m \in {0, 3}}
    \cup {Call("tokens", a, [BaseConfig EXCEPT !.target_tokens = t, !.min_array_tokens = 0,
                                               !.significant_cols = sc])
          : a \in {Alternating, Peak}, t \in {None, 0, 60, 100, 150},
            sc \in {<<>>, <<KeyS>>}}
    \cup {Call("ratio", a, [BaseConfig EXCEPT !.sequence_key = k, !.reduction_pct = r])
          : a \in {Alternating, Peak}, k \in {KeyCycle, KeyV}, r \in {30, 70}}
    \cup {Call("tokens", CostlyPeak, [BaseConfig EXCEPT !.target_tokens = t,
                                                        !.min_array_tokens = 0,
                                                        !.significant_cols = <<KeyS>>])
          : t \in {100, 165}}
    \cup {Call("items", Outliers, [BaseConfig EXCEPT !.target_size = 3,
                                                     !.preserve_anomalies = a])
          : a \in BOOLEAN}
    \cup {Call("tokens", Outliers, [BaseConfig EXCEPT !.preserve_anomalies = a])
          : a \in BOOLEAN}
    \cup {Call("items", Plateaus, [BaseConfig EXCEPT !.target_size = t])
          : t \in {None, 9}}
    \cup {Call("items", Peak, [BaseConfig EXCEPT !.target_size = t,
                                                 !.preserve_extremes = FALSE])
          : t \in {3, 4}}
    \cup {Call("tokens", Plateaus, [BaseConfig EXCEPT !.target_tokens = 212,
                                                      !.min_array_tokens = 0,
                                                      !.significant_cols = <<KeyS>>])}
    \cup {Call("items", Sampled, [BaseConfig EXCEPT !.target_size = 6,
                                                    !.preserve_anomalies = a])
          : a \in BOOLEAN}
    \cup {Call("tokens", Sampled, [BaseConfig EXCEPT !.target_tokens = t,
                                                     !.preserve_anomalies = a])
          : t \in {250, 1000}, a \in BOOLEAN}

ArrayCalls == SmallCalls \cup LongCalls

\* the calls on a value that is neither a list nor a dictionary
ScalarInputs ==
    {JInt(0), JInt(5), JStr(<<>>), JStr(<<"a", "b">>), JStr(<<"a", "b", "c", "d">>),
     JStr(<<"b", ",", "c">>), JStr(<<"a", " ", "b">>), JBool(TRUE), JBool(FALSE), JNull}

ScalarCalls ==
    {[variant |-> v, input |-> x, config |-> [BaseConfig EXCEPT !.min_points = m]]
     : v \in {"items", "tokens", "ratio"}, x \in ScalarInputs, m \in {0, 3}}

\* ------------------------------------------------------------- the trees
Flat3 == [i \in 1..3 |-> Rec(i - 1, 0, <<"a">>)]
TreeArrays == {Flat3, Peak}

Key(c) == <<c>>
ScalarList == JList(<<JInt(1), JInt(2)>>)

\* an array of records that is the field of a record of another array, and one
\* that is an element of another array
NestedInRecord == JDict(<<KV(Key("x"), JList(<<JDict(<<KV(Key("k"), JList(Flat3))>>)>>))>>)
NestedInList == JDict(<<KV(Key("x"), JList(<<JList(Flat3)>>))>>)

\* two arrays under different paths; two arrays whose dotted paths coincide
\* (a key named "root", a key holding a dot); one array beside a number, a
\* list of numbers and an empty list; an empty list alone
Trees ==
    {JDict(<<KV(Key("A"), JDict(<<KV(Key("x"), JList(x))>>)),
             KV(Key("B"), JDict(<<KV(Key("y"), JList(y))>>))>>)
     : x \in TreeArrays, y \in TreeArrays}
    \cup {JDict(<<KV(RootPath, JDict(<<KV(Key("x"), JList(x))>>)),
                  KV(Key("x"), JList(y))>>)
          : x \in TreeArrays, y \in TreeArrays}
    \cup {JDict(<<KV(<<"A", ".", "x">>, JList(x)),
                  KV(Key("A"), JDict(<<KV(Key("x"), JList(y))>>))>>)
          : x \in TreeArrays, y \in TreeArrays}
    \cup {JDict(<<KV(Key("x"), JList(x)), KV(Key("t"), JInt(7)),
                  KV(Key("l"), ScalarList), KV(Key("e"), JList(<<>>))>>)
          : x \in TreeArrays \cup {Alternating}}
    \cup {JDict(<<KV(Key("e"), JList(<<>>))>>)}
    \cup {NestedInRecord, NestedInList}

SkipOptions ==
    {[fields |-> <<>>, patterns |-> <<>>],
     [fields |-> <<Key("y")>>, patterns |-> <<>>],
     [fields |-> <<<<"A", ".", "x">>>>, patterns |-> <<>>],
     [fields |-> <<>>, patterns |-> <<[head |-> TRUE, text |-> Key("B"), tail |-> FALSE]>>]}

TreeCalls ==
    {[variant |-> "items", input |-> t,
      config |-> [BaseConfig EXCEPT !.target_size = b, !.min_points = m,
                                    !.min_array_size = f]]
     : t \in Trees, b \in {None, 2, 7}, m \in {0, 3}, f \in {0, 4}}
    \cup {[variant |-> "tokens", input |-> t,
           config |-> [BaseConfig EXCEPT !.target_tokens = b, !.min_array_tokens = f,
                                         !.skip_fields = sk.fields,
                                         !.skip_patterns = sk.patterns]]
          : t \in Trees, b \in {None, 50, 150}, f \in {0, 67}, sk \in SkipOptions}
    \cup {[variant |-> "tokens", input |-> t,
           config |-> [BaseConfig EXCEPT !.target_tokens = b, !.min_array_tokens = 0,
                                         !.significant_cols = <<KeyS>>]]
          : t \in Trees, b \in {50, 150}}
    \cup {[variant |-> "tokens", input |-> t,
           config |-> [BaseConfig EXCEPT !.target_tokens = 50, !.min_array_tokens = 100]]
          : t \in Trees}

\* -------------------------------------------------------------- the state
VARIABLES
    variant,         \* "items": data-reducer.py, "tokens": data-reduce-token.py,
                     \* "ratio": json-data-reducer.py
    input,           \* the data passed to intelligent_json_reducer
    config,          \* the merged configuration of the call
    pc,              \* where the call stands
    data,            \* the array inside _compress_single_array
    cfg,             \* the configuration _compress_single_array was given
    preserved,       \* preserved_indices
    queue,           \* sorted_remaining still to test (growth), can_remove (shrink)
    current_tokens,  \* current_tokens
    result,          \* what _compress_single_array returned
    round,           \* 1: first call, 2: the call on the first call's output
    prev,            \* the output of the first call
    array_info,      \* array_info of _compress_nested_with_total_target
    totals,          \* total_items, total_compressible_tokens, total_skipped_tokens
    todo,            \* the lists the running pass has still to reach
    outputs,         \* what _compress_recursively returned for the lists so far
    metadata,        \* the report under construction
    output           \* the "data" intelligent_json_reducer returned

avars == <<data, cfg, preserved, queue, current_tokens, result>>
wvars == <<array_info, totals, todo, outputs, metadata, output>>
vars == <<variant, input, config, pc, round, prev, avars, wvars>>

NoResult == [data |-> <<>>, preserved_indices |-> <<>>, selected |-> FALSE,
             message |-> "", original_size |-> 0, compressed_size |-> 0,
             original_tokens |-> 0, compressed_tokens |-> 0]

NoTotals == [items |-> 0, compressible_tokens |-> 0, skipped_tokens |-> 0]

NoMetadata == [message |-> "", arrays_found |-> 0, arrays_compressible |-> 0,
               arrays_skipped |-> 0, arrays_compressed |-> 0, total_original |-> 0,
               total_compressible_tokens |-> 0, total_skipped_tokens |-> 0,
               total_compressed |-> 0, compression_details |-> <<>>,
               original_type |-> ""]

InitCall(call) ==
    /\ variant = call.variant
    /\ input = call.input
    /\ config = call.config
    /\ pc = "start"
    /\ data = <<>>
    /\ cfg = call.config
    /\ preserved = {}
    /\ queue = <<>>
    /\ current_tokens = 0
    /\ result = NoResult
    /\ round = 1
    /\ prev = <<>>
    /\ array_info = <<>>
    /\ totals = NoTotals
    /\ todo = <<>>
    /\ outputs = <<>>
    /\ metadata = NoMetadata
    /\ output = JList(<<>>)

Init == \E call \in ArrayCalls \cup ScalarCalls : InitCall(call)

TreeInit == \E call \in TreeCalls : InitCall(call)

\* ------------------------------------------------ _compress_single_array
\* intelligent_json_reducer: a list goes to _compress_single_array (the ratio
\* variant is that function itself)
DispatchList ==
    /\ pc = "start"
    /\ input.t = "list"
    /\ data' = input.elems
    /\ cfg' = config
    /\ pc' = "single"
    /\ UNCHANGED <<variant, input, config, round, prev, preserved, queue, current_tokens,
                   result, wvars>>

\* the returns of _compress_single_array before any selection
Unchanged(message, tokens) ==
    [data |-> data, preserved_indices |-> <<>>, selected |-> FALSE, message |-> message,
     original_size |-> Len(data), compressed_size |-> Len(data),
     original_tokens |-> tokens, compressed_tokens |-> tokens]

\* _compress_single_array up to step 3: the edge cases, the column kinds and
\* the salient set (and, in the tokens variant, its cost)
Select ==
    /\ pc = "single"
    /\ LET n == Len(data)
           original_tokens == estimate_tokens_for_array(data)
       IN IF variant \in {"items", "ratio"} /\ (n = 0 \/ n <= cfg.min_points)
          THEN /\ result' = Unchanged("Data too small for compression", 0)
               /\ pc' = "return"
               /\ UNCHANGED <<preserved, current_tokens>>
          ELSE IF variant = "tokens" /\ n = 0
          THEN /\ result' = Unchanged("Empty data", 0)
               /\ pc' = "return"
               /\ UNCHANGED <<preserved, current_tokens>>
          ELSE IF variant = "tokens" /\ original_tokens <= cfg.min_array_tokens
          THEN /\ result' = Unchanged("Data too small for compression", original_tokens)
               /\ pc' = "return"
               /\ UNCHANGED <<preserved, current_tokens>>
          ELSE /\ preserved' = SalientSet(variant, data, cfg)
               /\ current_tokens' = IF variant = "tokens"
                                    THEN TokensOf(data, SalientSet(variant, data, cfg))
                                    ELSE 0
               /\ pc' = "adjust"
               /\ UNCHANGED result
    /\ UNCHANGED <<variant, input, config, round, prev, data, cfg, queue, wvars>>

\* items and ratio, step 4: fewer preserved than target_size
FillSlots ==
    /\ pc = "adjust" /\ variant \in {"items", "ratio"}
    /\ Cardinality(preserved) < TargetSize(variant, Len(data), cfg)
    /\ preserved' = Fill(data, numerical_cols(variant, data, cfg), preserved,
                         TargetSize(variant, Len(data), cfg))
    /\ pc' = "extract"
    /\ UNCHANGED <<variant, input, config, round, prev, data, cfg, queue, current_tokens,
                   result, wvars>>

\* items: more preserved than target_size
TrimSlots ==
    /\ pc = "adjust" /\ variant = "items"
    /\ Cardinality(preserved) > ItemsTarget(Len(data), cfg)
    /\ preserved' = Trim(Len(data), preserved, ItemsTarget(Len(data), cfg))
    /\ pc' = "extract"
    /\ UNCHANGED <<variant, input, config, round, prev, data, cfg, queue, current_tokens,
                   result, wvars>>

\* "if current_tokens < target_tokens and len(preserved_indices) < n"
GrowCondition(c, tokens, kept, n) ==
    /\ c.target_tokens # None
    /\ tokens < c.target_tokens
    /\ Cardinality(kept) < n

\* "elif current_tokens > target_tokens and len(preserved_indices) > 3"
ShrinkCondition(c, tokens, kept, n) ==
    /\ c.target_tokens # None
    /\ ~GrowCondition(c, tokens, kept, n)
    /\ tokens > c.target_tokens
    /\ Cardinality(kept) > 3

\* tokens: under target, the candidates are ranked
GrowBegin ==
    /\ pc = "adjust" /\ variant = "tokens"
    /\ GrowCondition(cfg, current_tokens, preserved, Len(data))
    /\ queue' = sorted_remaining(data, numerical_cols(variant, data, cfg),
                                 (0..(Len(data) - 1)) \ preserved)
    /\ pc' = "grow"
    /\ UNCHANGED <<variant, input, config, round, prev, data, cfg, preserved,
                   current_tokens, result, wvars>>

GrowStep ==
    /\ pc = "grow"
    /\ LET st == GrowStepOf(data, cfg.target_tokens,
                            [preserved |-> preserved, queue |-> queue,
                             current_tokens |-> current_tokens, running |-> TRUE])
       IN /\ preserved' = st.preserved
          /\ queue' = st.queue
          /\ current_tokens' = st.current_tokens
          /\ pc' = IF st.running THEN "grow" ELSE "extract"
    /\ UNCHANGED <<variant, input, config, round, prev, data, cfg, result, wvars>>

\* tokens: over target with more than 3 preserved, the removable ones listed
ShrinkBegin ==
    /\ pc = "adjust" /\ variant = "tokens"
    /\ ShrinkCondition(cfg, current_tokens, preserved, Len(data))
    /\ queue' = SortedList(preserved \ {0, Len(data) - 1})
    /\ pc' = "shrink"
    /\ UNCHANGED <<variant, input, config, round, prev, data, cfg, preserved,
                   current_tokens, result, wvars>>

ShrinkStep ==
    /\ pc = "shrink"
    /\ LET st == ShrinkStepOf(data, cfg.target_tokens,
                              [preserved |-> preserved, queue |-> queue,
                               current_tokens |-> current_tokens, running |-> TRUE])
       IN /\ preserved' = st.preserved
          /\ queue' = st.queue
          /\ current_tokens' = st.current_tokens
          /\ pc' = IF st.running THEN "shrink" ELSE "extract"
    /\ UNCHANGED <<variant, input, config, round, prev, data, cfg, result, wvars>>

\* neither branch of the adjustment applies
NoAdjust ==
    /\ pc = "adjust"
    /\ IF variant = "items"
       THEN Cardinality(preserved) = ItemsTarget(Len(data), cfg)
       ELSE IF variant = "ratio"
       THEN Cardinality(preserved) >= RatioTarget(Len(data), cfg)
       ELSE /\ ~GrowCondition(cfg, current_tokens, preserved, Len(data))
            /\ ~ShrinkCondition(cfg, current_tokens, preserved, Len(data))
    /\ pc' = "extract"
    /\ UNCHANGED <<variant, input, config, round, prev, data, cfg, preserved, queue,
                   current_tokens, result, wvars>>

\* "Extract results"
Extract ==
    /\ pc = "extract"
    /\ LET compressed_data == PickSorted(data, preserved, 0)
       IN result' = [data |-> compressed_data,
                     preserved_indices |-> SortedList(preserved),
                     selected |-> TRUE, message |-> "",
                     original_size |-> Len(data),
                     compressed_size |-> Len(compressed_data),
                     original_tokens |-> IF variant = "tokens"
                                         THEN estimate_tokens_for_array(data) ELSE 0,
                     compressed_tokens |-> IF variant = "tokens"
                                           THEN estimate_tokens_for_array(compressed_data)
                                           ELSE 0]
    /\ pc' = "return"
    /\ UNCHANGED <<variant, input, config, round, prev, data, cfg, preserved, queue,
                   current_tokens, wvars>>

\* the call on a list returns to the caller of intelligent_json_reducer
Return ==
    /\ pc = "return"
    /\ input.t = "list"
    /\ output' = JList(result.data)
    /\ pc' = "done"
    /\ UNCHANGED <<variant, input, config, round, prev, avars, array_info, totals, todo,
                   outputs, metadata>>

\* The caller passes the array it got back to intelligent_json_reducer again,
\* with an absolute target of at least the array's present size (items) or
\* estimated cost (tokens).
Recompress ==
    /\ pc = "done" /\ round = 1
    /\ input.t = "list"
    /\ variant \in {"items", "tokens"}
    /\ \E extra \in {0, 1} :
         LET size == IF variant = "items" THEN Len(output.elems)
                     ELSE estimate_tokens_for_array(output.elems)
         IN config' = IF variant = "items"
                      THEN [config EXCEPT !.target_size = size + extra]
                      ELSE [config EXCEPT !.target_tokens = size + extra]
    /\ input' = output
    /\ prev' = output.elems
    /\ round' = 2
    /\ pc' = "start"
    /\ UNCHANGED <<variant, avars, wvars>>

\* type(data).__name__ of a value that is neither a list nor a dictionary
TypeName(x) ==
    CASE x.t = "int" -> "int"
      [] x.t = "str" -> "str"
      [] x.t = "bool" -> "bool"
      [] x.t = "null" -> "NoneType"

\* The ratio variant has no test of the type.  On a value x that is neither a
\* list nor a dictionary, "not data or len(data) <= min_points" and the
\* len(data) of the return that follows raise TypeError for a number, a boolean
\* and None; a string of at most min_points characters takes that return; a
\* longer one goes to pd.DataFrame(data), which raises ValueError.
RatioEdgeCaseReturns(x, c) == x.t = "str" /\ Len(x.s) <= c.min_points

\* intelligent_json_reducer on a value that is neither a list nor a
\* dictionary: the items and tokens variants return it with "Data format not
\* supported", the ratio variant returns it as too small or raises
DispatchOther ==
    /\ pc = "start"
    /\ input.t \notin {"list", "dict"}
    /\ IF variant \in {"items", "tokens"}
       THEN /\ output' = input
            /\ metadata' = [NoMetadata EXCEPT
                   !.message = "Data format not supported",
                   !.original_type = TypeName(input),
                   !.total_original = IF variant = "tokens" THEN estimate_tokens(input)
                                      ELSE 0]
            /\ pc' = "done"
       ELSE IF RatioEdgeCaseReturns(input, config)
       THEN /\ output' = input
            /\ metadata' = [NoMetadata EXCEPT !.message = "Data too small for compression"]
            /\ pc' = "done"
       ELSE /\ pc' = "raised"
            /\ UNCHANGED <<output, metadata>>
    /\ UNCHANGED <<variant, input, config, round, prev, avars, array_info, totals, todo,
                   outputs>>

\* ------------------------------------- _compress_nested_with_total_target
\* intelligent_json_reducer: a dictionary goes to the walker, whose first
\* pass starts at the root
DispatchDict ==
    /\ pc = "start"
    /\ input.t = "dict"
    /\ todo' = ListNodes(input, RootPath, <<>>)
    /\ array_info' = <<>>
    /\ totals' = NoTotals
    /\ pc' = "collect"
    /\ UNCHANGED <<variant, input, config, round, prev, avars, outputs, metadata, output>>

\* _collect_arrays reaches the next list
CollectNext ==
    /\ pc = "collect"
    /\ todo # <<>>
    /\ LET found == CollectedInfo(variant, Head(todo), config)
       IN /\ array_info' = array_info \o found
          /\ totals' =
               IF found = <<>> THEN totals
               ELSE IF variant = "items"
                    THEN [totals EXCEPT !.items = @ + found[1].size]
               ELSE IF found[1].skip
                    THEN [totals EXCEPT !.skipped_tokens = @ + found[1].tokens]
               ELSE [totals EXCEPT !.compressible_tokens = @ + found[1].tokens]
    /\ todo' = Tail(todo)
    /\ UNCHANGED <<variant, input, config, pc, round, prev, avars, outputs, metadata,
                   output>>

IsCompressible(info) == ~info.skip
IsSkipped(info) == info.skip

\* CollectDone taken before the first pass has reached every list
CollectDoneEarly ==
    /\ pc = "collect"
    /\ IF SelectSeq(array_info, IsCompressible) = <<>>
       THEN /\ output' = input
            /\ metadata' = [NoMetadata EXCEPT
                   !.message = "No compressible arrays found",
                   !.arrays_found = Len(array_info),
                   !.arrays_skipped = Len(SelectSeq(array_info, IsSkipped)),
                   !.total_original = IF variant = "tokens" THEN estimate_tokens(input)
                                      ELSE 0,
                   !.total_skipped_tokens = totals.skipped_tokens]
            /\ pc' = "done"
       ELSE /\ pc' = "allocate"
            /\ UNCHANGED <<output, metadata>>
    /\ UNCHANGED <<variant, input, config, round, prev, avars, array_info, totals, todo,
                   outputs>>

\* the first pass is over: without a compressible array the tree is returned
\* as it is, otherwise the targets are computed next
CollectDone ==
    /\ pc = "collect"
    /\ todo = <<>>
    /\ IF SelectSeq(array_info, IsCompressible) = <<>>
       THEN /\ output' = input
            /\ metadata' = [NoMetadata EXCEPT
                   !.message = "No compressible arrays found",
                   !.arrays_found = Len(array_info),
                   !.arrays_skipped = Len(SelectSeq(array_info, IsSkipped)),
                   !.total_original = IF variant = "tokens" THEN estimate_tokens(input)
                                      ELSE 0,
                   !.total_skipped_tokens = totals.skipped_tokens]
            /\ pc' = "done"
       ELSE /\ pc' = "allocate"
            /\ UNCHANGED <<output, metadata>>
    /\ UNCHANGED <<variant, input, config, round, prev, avars, array_info, totals, todo,
                   outputs>>

\* the compressible arrays that have no target yet
Unallocated == {j \in 1..Len(array_info) :
                   ~array_info[j].skip /\ array_info[j].individual_target = None}

\* "Calculate proportional target": the next compressible array gets its
\* target; with target_size / target_tokens None every target stays None
AllocateNext ==
    /\ pc = "allocate"
    /\ (IF variant = "items" THEN config.target_size ELSE config.target_tokens) # None
    /\ Unallocated # {}
    /\ LET j == CHOOSE j \in Unallocated : \A i \in Unallocated : j <= i
       IN IF variant = "items" /\ totals.items = 0
          THEN /\ pc' = "raised"
               /\ UNCHANGED array_info
          ELSE /\ array_info' = [array_info EXCEPT ![j].individual_target =
                      IndividualTarget(variant, array_info[j], config, totals.items,
                                       totals.compressible_tokens)]
               /\ UNCHANGED pc
    /\ UNCHANGED <<variant, input, config, round, prev, avars, totals, todo, outputs,
                   metadata, output>>

\* the targets are fixed: the report is set up and the second pass starts
AllocateDone ==
    /\ pc = "allocate"
    /\ (IF variant = "items" THEN config.target_size ELSE config.target_tokens) # None
          => Unallocated = {}
    /\ metadata' = [NoMetadata EXCEPT
           !.arrays_found = Len(array_info),
           !.arrays_compressible = Len(SelectSeq(array_info, IsCompressible)),
           !.arrays_skipped = Len(SelectSeq(array_info, IsSkipped)),
           !.total_original = IF variant = "items" THEN totals.items
                              ELSE totals.compressible_tokens + totals.skipped_tokens,
           !.total_compressible_tokens = totals.compressible_tokens,
           !.total_skipped_tokens = totals.skipped_tokens,
           !.total_compressed = totals.skipped_tokens]
    /\ todo' = ListNodes(input, RootPath, <<>>)
    /\ outputs' = <<>>
    /\ pc' = "rebuild"
    /\ UNCHANGED <<variant, input, config, round, prev, avars, array_info, totals, output>>

\* _compress_recursively reaches the next list: without a matching
\* array_info entry, or with one marked skip, the list is returned as it is;
\* otherwise _compress_single_array is called with the entry's target
RebuildNext ==
    /\ pc = "rebuild"
    /\ todo # <<>>
    /\ LET node == Head(todo)
           m == MatchingInfo(array_info, node.path)
       IN IF m = 0 \/ array_info[m].skip
          THEN /\ outputs' = Append(outputs, node.obj)
               /\ todo' = Tail(todo)
               /\ UNCHANGED <<pc, data, cfg>>
          ELSE /\ data' = node.obj.elems
               /\ cfg' = IF variant = "items"
                         THEN [config EXCEPT !.target_size = array_info[m].individual_target]
                         ELSE [config EXCEPT !.target_tokens = array_info[m].individual_target]
               /\ pc' = "single"
               /\ UNCHANGED <<outputs, todo>>
    /\ UNCHANGED <<variant, input, config, round, prev, preserved, queue, current_tokens,
                   result, array_info, totals, metadata, output>>

\* _compress_single_array returned to _compress_recursively: the report is
\* updated.  The items variant reads result["metadata"]["compression_percentage"],
\* which the "too small" return does not carry: KeyError.
ReturnToWalker ==
    /\ pc = "return"
    /\ input.t = "dict"
    /\ IF variant = "items" /\ ~result.selected
       THEN /\ pc' = "raised"
            /\ UNCHANGED <<outputs, todo, metadata>>
       ELSE /\ outputs' = Append(outputs, JList(result.data))
            /\ todo' = Tail(todo)
            /\ metadata' = [metadata EXCEPT
                   !.arrays_compressed = @ + 1,
                   !.total_compressed = @ + (IF variant = "items" THEN result.compressed_size
                                             ELSE result.compressed_tokens),
                   !.compression_details = Append(@,
                       [path |-> Head(todo).path,
                        original_size |-> result.original_size,
                        compressed_size |-> result.compressed_size,
                        original_tokens |-> result.original_tokens,
                        compressed_tokens |-> result.compressed_tokens,
                        individual_target |-> IF variant = "items" THEN cfg.target_size
                                              ELSE cfg.target_tokens])]
            /\ pc' = "rebuild"
    /\ UNCHANGED <<variant, input, config, round, prev, avars, array_info, totals, output>>

\* the places of the lists reached by the second pass, in its order
Places == LET nodes == ListNodes(input, RootPath, <<>>)
          IN [k \in 1..Len(nodes) |-> nodes[k].place]

\* outputs as a function of the place
OutputAt(outs) ==
    [place \in {Places[k] : k \in 1..Len(outs)} |->
        outs[CHOOSE k \in 1..Len(outs) : Places[k] = place]]

\* the second pass is over: the rebuilt tree is returned
Finish ==
    /\ pc = "rebuild"
    /\ todo = <<>>
    /\ output' = Rebuilt(input, <<>>, OutputAt(outputs))
    /\ pc' = "done"
    /\ UNCHANGED <<variant, input, config, round, prev, avars, array_info, totals, todo,
                   outputs, metadata>>

SingleArrayNext ==
    \/ Select \/ FillSlots \/ TrimSlots \/ GrowBegin \/ GrowStep
    \/ ShrinkBegin \/ ShrinkStep \/ NoAdjust \/ Extract

Next == DispatchList \/ DispatchOther \/ SingleArrayNext \/ Return \/ Recompress

TreeNext ==
    \/ DispatchDict \/ CollectNext \/ CollectDone \/ AllocateNext \/ AllocateDone
    \/ RebuildNext \/ ReturnToWalker \/ Finish \/ SingleArrayNext

Spec == Init /\ [][Next]_vars

TreeSpec == TreeInit /\ [][TreeNext]_vars

\* ------------------------------------ _compress_single_array as a function
RECURSIVE RunGrow(_, _, _)
\* the growth loop run to its end
RunGrow(data_array, target_tokens, st) ==
    IF st.running THEN RunGrow(data_array, target_tokens,
                               GrowStepOf(data_array, target_tokens, st))
    ELSE st

RECURSIVE RunShrink(_, _, _)
\* the shrink loop run to its end
RunShrink(data_array, target_tokens, st) ==
    IF st.running THEN RunShrink(data_array, target_tokens,
                                 ShrinkStepOf(data_array, target_tokens, st))
    ELSE st

\* preserved_indices at "Extract results"
SelectedIndices(v, data_array, c) ==
    LET n == Len(data_array)
        salient == SalientSet(v, data_array, c)
        num == numerical_cols(v, data_array, c)
        tokens == TokensOf(data_array, salient)
        Begin(q) == [preserved |-> salient, queue |-> q, current_tokens |-> tokens,
                     running |-> TRUE]
    IN IF v = "tokens"
       THEN IF GrowCondition(c, tokens, salient, n)
            THEN RunGrow(data_array, c.target_tokens,
                         Begin(sorted_remaining(data_array, num, (0..(n - 1)) \ salient))
                        ).preserved
            ELSE IF ShrinkCondition(c, tokens, salient, n)
            THEN RunShrink(data_array, c.target_tokens,
                           Begin(SortedList(salient \ {0, n - 1}))).preserved
            ELSE salient
       ELSE IF Cardinality(salient) < TargetSize(v, n, c)
            THEN Fill(data_array, num, salient, TargetSize(v, n, c))
            ELSE IF v = "items" /\ Cardinality(salient) > TargetSize(v, n, c)
            THEN Trim(n, salient, TargetSize(v, n, c))
            ELSE salient

\* whether _compress_single_array returns before any selection
TooSmall(v, data_array, c) ==
    IF v = "tokens"
    THEN data_array = <<>> \/ estimate_tokens_for_array(data_array) <= c.min_array_tokens
    ELSE data_array = <<>> \/ Len(data_array) <= c.min_points

\* result["data"] of _compress_single_array
compress_single_array(v, data_array, c) ==
    IF TooSmall(v, data_array, c) THEN data_array
    ELSE PickSorted(data_array, SelectedIndices(v, data_array, c), 0)

\* ================================================================ claims
\* the salient set of the array under compression
Salient == SalientSet(variant, data, cfg)

\* the selection of the array under compression has been made and returned
Returned == pc \in {"return", "done"} /\ result.selected

StrictlyIncreasing(seq) == \A k \in 1..(Len(seq) - 1) : seq[k] < seq[k + 1]

\* C1: for every non-empty array of length n given to single-array compression
\* (items, tokens or ratio variant), the preserved indices contain 0 and n-1
\* from the salient set on through every fill, trim, growth and shrink step;
\* the returned index list is strictly increasing and the returned records
\* are the input records at those indices, in that order (an array returned
\* before selection is returned whole).
FirstLastPreserved ==
    /\ pc \in {"adjust", "grow", "shrink", "extract"} =>
          /\ {0, Len(data) - 1} \subseteq preserved
          /\ preserved \subseteq 0..(Len(data) - 1)
    /\ (Returned /\ input.t = "list") =>
          LET idx == result.preserved_indices
          IN /\ idx # <<>>
             /\ idx[1] = 0
             /\ idx[Len(idx)] = Len(data) - 1
             /\ StrictlyIncreasing(idx)
             /\ Len(result.data) = Len(idx)
             /\ \A k \in 1..Len(idx) : result.data[k] = data[idx[k] + 1]
    /\ (pc \in {"return", "done"} /\ ~result.selected /\ input.t = "list") =>
          result.data = data

\* C1 witness: a selection was cut down (trimmed or shrunk) below an interior
\* salient index and returned with fewer records than the array had
TrimmedSelectionReturned ==
    /\ Returned
    /\ Len(data) >= 5
    /\ result.compressed_size < Cardinality(Salient)
    /\ result.compressed_size >= 3

\* C2 as stated: in the items variant, for any target t <= n and any
\* min_points, single-array compression returns exactly
\* min(max(t, min_points), n) records.
ItemCountExact ==
    (variant = "items" /\ pc = "return" /\ cfg.target_size # None
       /\ cfg.target_size <= Len(data))
    => Len(result.data) = Min(Max(cfg.target_size, cfg.min_points), Len(data))

\* C2 amended: in the items variant, for any target t <= n and any min_points,
\* single-array compression returns exactly min(max(t, min_points, 2), n)
\* records: the first and the last record are kept whatever the target.
ItemCountExactAboveTwo ==
    (variant = "items" /\ pc = "return" /\ cfg.target_size # None
       /\ cfg.target_size <= Len(data))
    => Len(result.data) = Min(Max(Max(cfg.target_size, cfg.min_points), 2), Len(data))

\* C2 witness: a salient set larger than the target was trimmed to the target
ItemCountTrimmed ==
    /\ variant = "items" /\ pc = "return" /\ result.selected
    /\ cfg.target_size # None /\ cfg.target_size <= Len(data)
    /\ Cardinality(Salient) > ItemsTarget(Len(data), cfg)
    /\ Len(result.data) = cfg.target_size
    /\ Len(result.data) > 2

\* C3: in the tokens variant, whenever the salient set costs more than
\* target_tokens, the returned array costs at most target_tokens, whatever the
\* size of the salient set.  Stated for the targets the first and the last
\* record alone meet (no selection can meet a lower one).
ShrinkMeetsTarget ==
    (/\ variant = "tokens" /\ Returned
     /\ cfg.target_tokens # None
     /\ TokensOf(data, Salient) > cfg.target_tokens
     /\ TokensOf(data, {0, Len(data) - 1}) <= cfg.target_tokens)
    => result.compressed_tokens <= cfg.target_tokens

\* the growth branch was taken for the array under compression
Grew == variant = "tokens" /\ GrowCondition(cfg, TokensOf(data, Salient), Salient, Len(data))

\* C4: in the growth of the tokens variant a candidate is added only if the
\* selection with it costs at most target_tokens, the growth stops at the first
\* candidate that does not, and so after every growth step and in the
\* returned result the selection costs at most target_tokens.
GrowthWithinTarget ==
    /\ [](/\ pc = "grow" => /\ current_tokens = TokensOf(data, preserved)
                            /\ current_tokens <= cfg.target_tokens
          /\ (pc = "extract" /\ Grew) => TokensOf(data, preserved) <= cfg.target_tokens
          /\ (Returned /\ Grew) => result.compressed_tokens <= cfg.target_tokens)
    /\ [][GrowStep =>
            LET idx == Head(queue)
            IN /\ preserved' \in {preserved, preserved \cup {idx}}
               /\ idx \in preserved' => TokensOf(data, preserved \cup {idx}) <= cfg.target_tokens
               /\ idx \notin preserved' => pc' = "extract"
               /\ TokensOf(data, preserved') <= cfg.target_tokens]_vars

\* C4 witness: the growth added at least one candidate and then stopped at a
\* rejected one, other candidates still waiting
GrowthStoppedAtRejection ==
    /\ pc = "extract" /\ Grew
    /\ Cardinality(preserved) > Cardinality(Salient)
    /\ Len(queue) >= 2
    /\ TokensOf(data, preserved \cup {Head(queue)}) > cfg.target_tokens

\* C5: compressing the output of a compression again, with a target (items:
\* a count, tokens: an estimated cost) equal to or greater than its present
\* size or cost, returns the same records in the same order.
Idempotent ==
    (round = 2 /\ pc = "done") => output.elems = prev

\* ------------------------------------------------------ claims on trees
\* the total budget of the call
Budget == IF variant = "items" THEN config.target_size ELSE config.target_tokens

\* the walker has fixed the targets and is in (or past) its second pass
AllocationsFixed ==
    /\ input.t = "dict"
    /\ pc \in {"rebuild", "single", "adjust", "grow", "shrink", "extract", "return"}

\* the positions in array_info of the compressible arrays
CompressibleInfos == {j \in 1..Len(array_info) : ~array_info[j].skip}

\* what the allocation is proportional to: the size (items), the cost (tokens)
Share(info) == IF variant = "items" THEN info.size ELSE info.tokens

RECURSIVE SumOver(_, _)
SumOver(f, set) ==
    IF set = {} THEN 0
    ELSE LET j == CHOOSE j \in set : TRUE IN f[j] + SumOver(f, set \ {j})

\* C6: with a total budget set, the targets allocated to the compressible
\* arrays are each non-negative and sum to at most the budget, in the items
\* walker and in the tokens walker, whatever min_points is.
AllocationsWithinBudget ==
    (AllocationsFixed /\ Budget # None) =>
        /\ \A j \in CompressibleInfos : array_info[j].individual_target >= 0
        /\ SumOver([j \in CompressibleInfos |-> array_info[j].individual_target],
                   CompressibleInfos) <= Budget

\* C8: the target allocated to a compressible array is
\* floor(budget * share / D), D the sum of the shares (sizes or costs) of the
\* compressible arrays only; skipped arrays get no target, and a single
\* compressible array gets the whole budget.
AllocationIsProportionalFloor ==
    (AllocationsFixed /\ Budget # None) =>
        LET D == SumOver([j \in CompressibleInfos |-> Share(array_info[j])],
                         CompressibleInfos)
        IN /\ \A j \in CompressibleInfos :
                 array_info[j].individual_target = (Budget * Share(array_info[j])) \div D
           /\ \A j \in (1..Len(array_info)) \ CompressibleInfos :
                 array_info[j].individual_target = None
           /\ \A j \in CompressibleInfos :
                 CompressibleInfos = {j} => array_info[j].individual_target = Budget

RECURSIVE ValueAt(_, _)
\* the value found in obj by following the key numbers of place
ValueAt(obj, place) ==
    IF place = <<>> THEN obj ELSE ValueAt(obj.items[Head(place)].v, Tail(place))

\* the lists of the input tree
InputLists == LET nodes == ListNodes(input, RootPath, <<>>)
              IN {nodes[k] : k \in 1..Len(nodes)}

\* a non-empty array of records
IsRecordArray(node) == node.obj.elems # <<>> /\ AllRecords(node.obj)

\* the array matches a skip condition: a skip rule (tokens), or a size or cost
\* below the compressibility floor
MatchesSkipCondition(node) ==
    IF variant = "items" THEN Len(node.obj.elems) < config.min_array_size
    ELSE \/ _should_skip_field(node.path, config)
         \/ estimate_tokens_for_array(node.obj.elems) < config.min_array_tokens

\* C7: every array of the tree that matches a skip condition (its path in
\* skip_fields, a segment of its path in skip_fields, a skip pattern, a size
\* or cost below the floor) is in the output tree with exactly its records,
\* also when two arrays have the same dotted path.
SkippedArraysUnchanged ==
    (pc = "done" /\ input.t = "dict") =>
        \A node \in InputLists :
            (IsRecordArray(node) /\ MatchesSkipCondition(node))
            => ValueAt(output, node.place) = node.obj

\* what discovery records for the array itself: compressible or not
CompressibleAtDiscovery(node) ==
    LET found == CollectedInfo(variant, node, config)
    IN found # <<>> /\ ~found[1].skip

\* C9: in the tokens walker an array classified compressible at discovery
\* (and counted in the divisor) is handed to the selection, not returned
\* unchanged by a second floor test, also when its cost equals
\* min_array_tokens.
CompressibleIsSelected ==
    (/\ variant = "tokens" /\ input.t = "dict" /\ pc = "return"
     /\ CompressibleAtDiscovery(Head(todo)))
    => result.selected

\* the list reconstruction is to put in the place of an array: the array
\* itself when it is not compressible, otherwise the selection made at the
\* target allocated to this array
ExpectedList(node) ==
    LET found == CollectedInfo(variant, node, config)
        own_target == IndividualTarget(variant, found[1], config, totals.items,
                                       totals.compressible_tokens)
        array_config == IF variant = "items"
                        THEN [config EXCEPT !.target_size = own_target]
                        ELSE [config EXCEPT !.target_tokens = own_target]
    IN IF ~CompressibleAtDiscovery(node) THEN node.obj
       ELSE JList(compress_single_array(variant, node.obj.elems, array_config))

RECURSIVE Reconstructed(_, _, _)
\* out is in_obj with the same keys in the same order, the same values
\* outside lists and the expected list in the place of every list
Reconstructed(in_obj, out, place) ==
    IF in_obj.t = "dict"
    THEN /\ out.t = "dict"
         /\ Len(out.items) = Len(in_obj.items)
         /\ \A j \in 1..Len(in_obj.items) :
               /\ out.items[j].k = in_obj.items[j].k
               /\ Reconstructed(in_obj.items[j].v, out.items[j].v, Append(place, j))
    ELSE IF in_obj.t = "list"
    THEN \E node \in InputLists : node.place = place /\ out = ExpectedList(node)
    ELSE out = in_obj

\* C10: the tree returned has the keys of the input in the same order, every
\* value that is not an array and every skipped array unchanged, and every
\* compressible array replaced by the selection made at the target allocated
\* to that array.
ReconstructionFaithful ==
    (pc = "done" /\ input.t = "dict") => Reconstructed(input, output, <<>>)

\* the ratio target of the array under compression: max(floor, int(n * (1 -
\* reduction_ratio))), the floor being min_points (items) or 3 (tokens)
OwnRatioTarget ==
    Max(IF variant = "tokens" THEN 3 ELSE cfg.min_points,
        (Len(data) * (100 - cfg.reduction_pct)) \div 100)

\* C11: with no absolute budget (target_size / target_tokens None) an array
\* that is compressed is grown or shrunk to its own ratio target
\* max(floor, int(n * (1 - reduction_ratio))) (no further than its two ends
\* and its length), in the tokens variant as in the items variant.
RatioTargetReached ==
    (/\ variant \in {"items", "tokens"} /\ pc = "return" /\ result.selected
     /\ (IF variant = "items" THEN cfg.target_size ELSE cfg.target_tokens) = None)
    => Len(result.data) = Min(Len(data), Max(OwnRatioTarget, Cardinality({0, Len(data) - 1})))

RECURSIVE DeepRecordArrays(_)
\* the non-empty arrays of records found anywhere in obj, inside arrays too
DeepRecordArrays(obj) ==
    IF obj.t = "dict"
    THEN UNION {DeepRecordArrays(obj.items[j].v) : j \in 1..Len(obj.items)}
    ELSE IF obj.t = "list"
    THEN (IF obj.elems # <<>> /\ AllRecords(obj) THEN {obj.elems} ELSE {})
         \cup UNION {DeepRecordArrays(obj.elems[i]) : i \in 1..Len(obj.elems)}
    ELSE {}

\* C12: once discovery is over, array_info holds an entry, with size and cost,
\* for every array of records at any depth of the tree, also for one that is
\* reached only through another array (in the items walker: for every such
\* array of at least min_array_size records).
DiscoveryReachesEveryArray ==
    (input.t = "dict" /\ pc \notin {"start", "collect"}) =>
        \A a \in DeepRecordArrays(input) :
            (variant = "items" => Len(a) >= config.min_array_size)
            => \E j \in 1..Len(array_info) :
                   /\ array_info[j].data = a
                   /\ array_info[j].size = Len(a)
                   /\ variant = "tokens" =>
                          array_info[j].tokens = estimate_tokens_for_array(a)

\* C13: an array that is empty or at or below the floor (min_points records,
\* min_array_tokens tokens) comes back from single-array compression as it
\* is, with a message and without a selection, and the walker that reached it
\* does not raise on that return, whatever min_points and min_array_size are.
UndersizedArrayReturnedUnchanged ==
    /\ (pc = "return" /\ TooSmall(variant, data, cfg)) =>
           /\ result.data = data
           /\ ~result.selected
           /\ result.message \in {"Data too small for compression", "Empty data"}
    /\ (pc = "raised" /\ todo # <<>>) => ~TooSmall(variant, data, cfg)

\* no array of the input tree is compressible: every non-empty array of
\* records matches a skip condition
NoCompressibleArray ==
    input.t = "dict" /\ \A node \in InputLists : IsRecordArray(node) => MatchesSkipCondition(node)

\* C14: for a tree without a compressible array the walker runs discovery
\* only (no allocation, no selection, no exception) and returns the input tree
\* itself with the report message "No compressible arrays found" and no array
\* counted as compressed.
ZeroCompressibleReturnsTree ==
    NoCompressibleArray =>
        /\ pc \in {"start", "collect", "done"}
        /\ pc = "done" => /\ output = input
                          /\ metadata.message = "No compressible arrays found"
                          /\ metadata.arrays_compressed = 0

\* C15: a call of intelligent_json_reducer on a string, a number, a boolean or
\* null (any of the three variants) does not raise, and returns the value
\* itself together with a message in the metadata.
UnsupportedInputReturned ==
    input.t \notin {"list", "dict"} =>
        /\ pc # "raised"
        /\ pc = "done" => output = input /\ metadata.message # ""

\* the indices returned by the selection
Kept == {result.preserved_indices[k] : k \in 1..Len(result.preserved_indices)}

\* C17: when the items variant finds fewer salient indices than its target t,
\* the indices it adds are the t - |salient| non-salient ones (all of them if
\* there are fewer) of highest significance score, and among equal scores the
\* lower index is taken: no index left out has a higher score than an added
\* one, or the same score and a lower index.
GrowthTakesHighestScores ==
    (/\ variant = "items" /\ pc = "return" /\ result.selected
     /\ Cardinality(Salient) < ItemsTarget(Len(data), cfg))
    => LET n == Len(data)
           num == numerical_cols(variant, data, cfg)
           added == Kept \ Salient
           left == (0..(n - 1)) \ Kept
       IN /\ Salient \subseteq Kept
          /\ Cardinality(added) = Min(ItemsTarget(n, cfg), n) - Cardinality(Salient)
          /\ \A i \in added, j \in left :
                /\ ~ScoreGreater(data, num, j, i)
                /\ ~ScoreGreater(data, num, i, j) => i < j

\* C18: when the items variant finds more salient indices than its target, the
\* indices it drops are salient indices other than 0 and n-1 of lowest
\* significance score: no dropped index has a higher score than an index kept
\* between the two ends.
ShrinkDropsLowestScores ==
    (/\ variant = "items" /\ pc = "return" /\ result.selected
     /\ Cardinality(Salient) > ItemsTarget(Len(data), cfg))
    => LET n == Len(data)
           num == numerical_cols(variant, data, cfg)
           dropped == Salient \ Kept
       IN /\ Kept \subseteq Salient
          /\ dropped \cap {0, n - 1} = {}
          /\ \A i \in dropped, j \in Kept \ {0, n - 1} : ~ScoreGreater(data, num, i, j)

\* C19: a step of the token shrink removes one removable candidate (never 0
\* or n-1) that is among the ShrinkWindow candidates of lowest significance
\* score, i.e. fewer than ShrinkWindow candidates score lower than it, and
\* the loop goes on exactly while the cost is above the target and a
\* candidate is left.
ShrinkStepRemovesLowScore ==
    [][pc = "shrink" =>
         LET n == Len(data)
             num == numerical_cols(variant, data, cfg)
             candidates == {queue[k] : k \in 1..Len(queue)}
             removed == preserved \ preserved'
         IN /\ Cardinality(removed) = 1
            /\ removed \subseteq candidates \ {0, n - 1}
            /\ \A r \in removed :
                  Cardinality({c \in candidates : ScoreGreater(data, num, r, c)})
                      < ShrinkWindow
            /\ current_tokens' = TokensOf(data, preserved')
            /\ (pc' = "shrink") <=> (current_tokens' > cfg.target_tokens /\ queue' # <<>>)
      ]_vars

\* what a complete discovery of the input tree records: the number of arrays
\* and the totals of their sizes and costs
FinalTotals ==
    LET nodes == ListNodes(input, RootPath, <<>>)
        found == [k \in 1..Len(nodes) |-> CollectedInfo(variant, nodes[k], config)]
        recorded == {k \in 1..Len(nodes) : found[k] # <<>>}
        skipped == {k \in recorded : found[k][1].skip}
    IN [count |-> Cardinality(recorded),
        items |-> IF variant = "items"
                  THEN SumOver([k \in recorded |-> found[k][1].size], recorded) ELSE 0,
        compressible_tokens |->
            IF variant = "tokens"
            THEN SumOver([k \in recorded \ skipped |-> found[k][1].tokens], recorded \ skipped)
            ELSE 0,
        skipped_tokens |-> SumOver([k \in skipped |-> found[k][1].tokens], skipped)]

DiscoveryComplete ==
    /\ Len(array_info) = FinalTotals.count
    /\ totals.items = FinalTotals.items
    /\ totals.compressible_tokens = FinalTotals.compressible_tokens
    /\ totals.skipped_tokens = FinalTotals.skipped_tokens

\* C20: in the tree walker the phases come in order.  While targets are
\* allocated, and whenever an array has a target, discovery is complete and
\* the totals are those of the whole tree; once a selection may run, every
\* compressible array has its target (when a budget is set); and after
\* discovery the totals and the number of discovered arrays never change, nor
\* does any target once the second pass has begun.
PhasesInOrder ==
    /\ [](input.t = "dict" =>
            /\ (\/ pc = "allocate"
                \/ \E j \in 1..Len(array_info) : array_info[j].individual_target # None)
               => DiscoveryComplete
            /\ (AllocationsFixed /\ Budget # None)
               => \A j \in CompressibleInfos : array_info[j].individual_target # None)
    /\ [][(input.t = "dict" /\ pc \notin {"start", "collect"}) =>
            /\ totals' = totals
            /\ Len(array_info') = Len(array_info)
            /\ AllocationsFixed => array_info' = array_info]_vars

\* the second of two compressible arrays is under selection, both targets set
SecondSelectionAfterAllocation ==
    /\ AllocationsFixed /\ Budget # None
    /\ pc = "adjust"
    /\ outputs # <<>>
    /\ Cardinality(CompressibleInfos) >= 2
    /\ \A j \in CompressibleInfos : array_info[j].individual_target # None

\* the fields of the array under compression that are Numeric, and those
\* scanned for transitions (tokens: the configured significant_cols; items:
\* the fields that are not numeric), the sequence key left out of both
NumericFields ==
    {col \in {Columns(data)[j] : j \in 1..Len(Columns(data))} :
        /\ col # cfg.sequence_key
        /\ ~(variant = "tokens" /\ InSeq(col, cfg.significant_cols))
        /\ \A i \in 1..Len(data) : Field(data[i], col).t = "int"}

SignificantFields ==
    {col \in {Columns(data)[j] : j \in 1..Len(Columns(data))} :
        /\ col # cfg.sequence_key
        /\ IF variant = "tokens" THEN InSeq(col, cfg.significant_cols)
           ELSE \E i \in 1..Len(data) : Field(data[i], col).t # "int"}

\* |z| > 2.5 for record i in the numeric field col, z = (v - mean) / std
ZAbove(col, i) ==
    LET n == Len(data)
        v(k) == Field(data[k + 1], col).n
        sum == SumOver([k \in 0..(n - 1) |-> v(k)], 0..(n - 1))
        squares == SumOver([k \in 0..(n - 1) |-> v(k) * v(k)], 0..(n - 1))
        dev == n * v(i) - sum
    IN n * squares - sum * sum > 0 /\ 4 * dev * dev > 25 * (n * squares - sum * sum)

\* C21: the salient set the selector computes (items and tokens variants) is
\* exactly: 0 and n-1; with preserve_anomalies, per numeric field the at most
\* 5 lowest-indexed records with |z| > 2.5; with preserve_extremes, per numeric
\* field the first index of the least and of the greatest value; and per
\* significant field both indices of every adjacent pair whose values differ.
SalientSetAsSpecified ==
    (pc = "adjust" /\ variant \in {"items", "tokens"}) =>
        LET n == Len(data)
            v(col, k) == Field(data[k + 1], col).n
            Anomalous(col, i) ==
                ZAbove(col, i) /\ Cardinality({j \in 0..(i - 1) : ZAbove(col, j)}) < 5
            Extreme(col, i) ==
                \/ /\ \A j \in 0..(n - 1) : v(col, i) <= v(col, j)
                   /\ \A j \in 0..(i - 1) : v(col, j) # v(col, i)
                \/ /\ \A j \in 0..(n - 1) : v(col, i) >= v(col, j)
                   /\ \A j \in 0..(i - 1) : v(col, j) # v(col, i)
            Differs(col, i, j) ==
                j >= 0 /\ j < n /\ Field(data[i + 1], col) # Field(data[j + 1], col)
        IN \A i \in 0..(n - 1) :
              i \in preserved <=>
                 \/ i \in {0, n - 1}
                 \/ cfg.preserve_anomalies /\ \E col \in NumericFields : Anomalous(col, i)
                 \/ cfg.preserve_extremes /\ \E col \in NumericFields : Extreme(col, i)
                 \/ \E col \in SignificantFields : Differs(col, i, i - 1) \/ Differs(col, i, i + 1)

\* six records are anomalous in one field and the first five are in the
\* salient set
SalientWithCappedAnomalies ==
    /\ pc = "adjust" /\ variant \in {"items", "tokens"} /\ cfg.preserve_anomalies
    /\ \E col \in NumericFields :
          /\ Cardinality({i \in 0..(Len(data) - 1) : ZAbove(col, i)}) > 5
          /\ Cardinality({i \in preserved : ZAbove(col, i)}) = 5

\* the array under compression with the sequence key of every record set to 0
SequenceKeyBlanked ==
    [i \in 1..Len(data) |->
        JDict([j \in 1..Len(data[i].items) |->
                  IF data[i].items[j].k = cfg.sequence_key
                  THEN KV(data[i].items[j].k, JInt(0)) ELSE data[i].items[j]])]

\* C22: in every variant the values of the sequence key play no part in the
\* analysis: the salient set is the one of the same array with a constant
\* sequence key, and so is the selection returned by the variants that select
\* by count (items, ratio).
SequenceKeyExcluded ==
    /\ pc = "adjust" => preserved = SalientSet(variant, SequenceKeyBlanked, cfg)
    /\ (pc = "return" /\ result.selected /\ variant \in {"items", "ratio"})
       => Kept = SelectedIndices(variant, SequenceKeyBlanked, cfg)

\* C23: the dotted path identifies an array within the tree: after discovery
\* the array_info entry found under the path of an array is the entry
\* discovery made for this very array (its records, hence its decision and
\* its target), and a list that discovery did not record finds no entry,
\* also under keys named "root" and keys that contain a dot.
PathIdentifiesArray ==
    (input.t = "dict" /\ pc \notin {"start", "collect"}) =>
        \A node \in InputLists :
            LET m == MatchingInfo(array_info, node.path)
            IN IF CollectedInfo(variant, node, config) = <<>> THEN m = 0
               ELSE m # 0 /\ array_info[m].data = node.obj.elems

\* C24: the cost estimate_tokens adds for the content of a string is the cost
\* of the whole content (_tokenize_text of the string), at least 1 for a
\* non-empty string: the estimate of a string is that cost plus one unit for
\* each structural character of its serialization (the two quotes, and the
\* structural characters in the content).
StringCostOverWholeContent ==
    (pc = "done" /\ variant = "tokens" /\ input.t = "str") =>
        LET structural ==
                2 + Cardinality({i \in 1..Len(input.s) : input.s[i] \in structural_chars})
        IN /\ metadata.total_original = structural + _tokenize_text(input.s)
           /\ input.s # <<>> => metadata.total_original - structural >= 1

\* C25: when the tokens walker has made its second pass, its report adds up:
\* arrays_found = arrays_compressible + arrays_skipped, arrays_compressed =
\* arrays_compressible, one compression_details entry per compressible array,
\* total_original_tokens = total_compressible_tokens + total_skipped_tokens,
\* and total_compressed_tokens = total_skipped_tokens + the compressed_tokens
\* of the compressed arrays.
ReportConsistent ==
    (input.t = "dict" /\ variant = "tokens" /\ pc = "done" /\ metadata.message = "") =>
        LET details == metadata.compression_details
        IN /\ metadata.arrays_found = metadata.arrays_compressible + metadata.arrays_skipped
           /\ metadata.arrays_compressed = metadata.arrays_compressible
           /\ Len(details) = metadata.arrays_compressible
           /\ metadata.total_original
                  = metadata.total_compressible_tokens + metadata.total_skipped_tokens
           /\ metadata.total_compressed
                  = metadata.total_skipped_tokens
                    + SumOver([k \in 1..Len(details) |-> details[k].compressed_tokens],
                              1..Len(details))

\* C26: the token shrink loop terminates.  In the loop the removable list is
\* never empty and holds exactly the preserved indices other than 0 and n-1,
\* at most |salient| - 2 of them; every pass removes one index from the
\* preserved set and the same index from the removable list, so at most
\* |salient| - 2 passes are made; and the loop is left with the cost at or
\* under the target or with only 0 and n-1 preserved.
ShrinkTerminates ==
    /\ [](pc = "shrink" =>
            /\ queue # <<>>
            /\ {queue[k] : k \in 1..Len(queue)} = preserved \ {0, Len(data) - 1}
            /\ Len(queue) = Cardinality(preserved) - 2
            /\ Cardinality(preserved) <= Cardinality(Salient))
    /\ [][pc = "shrink" =>
            /\ \E idx \in preserved :
                  /\ preserved' = preserved \ {idx}
                  /\ {queue'[k] : k \in 1..Len(queue')} = {queue[k] : k \in 1..Len(queue)} \ {idx}
            /\ Len(queue') = Len(queue) - 1
            /\ pc' \in {"shrink", "extract"}
            /\ pc' = "extract" =>
                  \/ current_tokens' <= cfg.target_tokens
                  \/ preserved' = {0, Len(data) - 1}]_vars

\* the loop has run down to the two ends with the cost still above the target
ShrinkRanToTheEnds ==
    /\ variant = "tokens" /\ pc = "extract"
    /\ Cardinality(Salient) > 3
    /\ preserved = {0, Len(data) - 1}
    /\ current_tokens > cfg.target_tokens
====
